---- MODULE Spec2Model ----
(***************************************************************************)
(* Career Counseling Agent (src/app.py): a Streamlit script that builds    *)
(* four prompt-template tools, a LangChain zero-shot agent over the tools  *)
(* the sidebar enables, and keeps a chat transcript and a conversation     *)
(* memory in the session state.                                            *)
(*                                                                         *)
(* Text is modelled as a sequence of tokens (a token is a piece of text    *)
(* that is never empty), so that the empty string is <<>> and string       *)
(* concatenation is \o.                                                    *)
(*                                                                         *)
(* Three specifications share the module:                                  *)
(*   Spec        the session: browser events, script runs, the agent run   *)
(*   SpecTools   build_tools applied to bounded name lists                 *)
(*   SpecPrompt  the four tool functions applied to bounded input texts    *)
(***************************************************************************)
EXTENDS Integers, Sequences, FiniteSets, TLC

VARIABLES
    \* ---- session (st.session_state, the browser, one script run) ----
    messages,       \* st.session_state["messages"]: the transcript
    memory,         \* st.session_state["memory"]: ConversationBufferMemory messages
    ui,             \* the sidebar widgets' values in the browser
    events,         \* widget events the browser has sent, not yet run (FIFO)
    chat_shown,     \* the last finished script run rendered st.chat_input
    pc,             \* position of the script run: "idle", "agent_run", "except", "reply"
    llm,            \* local llm of the run in flight (model, temperature)
    enabled_tools,  \* local enabled_tools of the run in flight
    tools,          \* local tools of the run in flight (the agent's tools)
    user_input,     \* local user_input of the run in flight
    context,        \* chat_history the agent loaded from the memory for this run
    invoked,        \* names of the tools the agent has invoked in this run
    e,              \* the exception caught at line 277 (its str())
    response,       \* local response of the run in flight
    cleared,        \* history: a clear has removed turns in this session
    \* ---- build_tools applied to a name list and to a permutation of it ----
    bt_names, bt_perm, bt_result, bt_result_perm, bt_called,
    \* ---- tool functions: the calls made on the model handle ----
    llm_calls

session_vars == <<messages, memory, ui, events, chat_shown, pc, llm, enabled_tools,
                  tools, user_input, context, invoked, e, response, cleared>>
tools_vars == <<bt_names, bt_perm, bt_result, bt_result_perm, bt_called>>
prompt_vars == <<llm_calls>>
vars == <<session_vars, tools_vars, prompt_vars>>

\* ------------------------------------------------------------------ bounds
MaxNames == 3        \* length of a name list given to build_tools
MaxPending == 2      \* widget events waiting for a script run
MaxTurns == 4        \* transcript turns
MaxToolCalls == 1    \* distinct tools one agent run invokes
MaxInputLen == 2     \* tokens of a tool input
MaxCalls == 2        \* tool invocations in a row

\* ------------------------------------------------------------------ helpers
RECURSIVE SeqsUpTo(_, _)
SeqsUpTo(S, n) ==
    IF n = 0 THEN {<<>>}
    ELSE LET shorter == SeqsUpTo(S, n - 1)
         IN  shorter \cup {Append(s, x) : s \in {t \in shorter : Len(t) = n - 1}, x \in S}

Range(s) == {s[i] : i \in 1..Len(s)}

IsPrefix(s, t) == Len(s) <= Len(t) /\ SubSeq(t, 1, Len(s)) = s

Count(s, x) == Cardinality({i \in 1..Len(s) : s[i] = x})

IsPermutation(s, t) ==
    /\ Len(s) = Len(t)
    /\ \A x \in Range(s) \cup Range(t) : Count(s, x) = Count(t, x)

RECURSIVE IsSubseq(_, _)
IsSubseq(s, t) ==
    IF s = <<>> THEN TRUE
    ELSE IF t = <<>> THEN FALSE
    ELSE IF Head(s) = Head(t) THEN IsSubseq(Tail(s), Tail(t))
    ELSE IsSubseq(s, Tail(t))

\* ------------------------------------------------------------------ build_tools
\* The sidebar's option list, in declaration order.
default_tools ==
    <<"Skills Gap Analyzer", "Resume Scorer", "Salary Estimator",
      "Interview Question Generator">>

\* The dict of build_tools: label -> the Tool its factory makes (by Tool.name).
all_tools ==
    [label \in Range(default_tools) |->
        CASE label = "Skills Gap Analyzer" -> "skills_gap_analyzer"
          [] label = "Resume Scorer" -> "resume_scorer"
          [] label = "Salary Estimator" -> "salary_estimator"
          [] label = "Interview Question Generator" -> "interview_question_generator"]

\* [all_tools[name] for name in enabled_tool_names]: one tool per name, in the
\* order of the names; the first name that is not a key raises KeyError.
build_tools(enabled_tool_names) ==
    LET bad == {i \in 1..Len(enabled_tool_names) :
                    enabled_tool_names[i] \notin DOMAIN all_tools}
    IN  IF bad = {}
        THEN [raised |-> FALSE,
              value |-> [i \in 1..Len(enabled_tool_names) |-> all_tools[enabled_tool_names[i]]]]
        ELSE [raised |-> TRUE,
              value |-> <<"KeyError", enabled_tool_names[CHOOSE i \in bad : \A j \in bad : i <= j]>>]

\* A name no tool has.
UnknownNames == {"Career Planner"}

\* Name lists without a repeated name, as a multiselect gives them.
NameLists ==
    {s \in SeqsUpTo(Range(default_tools) \cup UnknownNames, MaxNames) :
        \A i, j \in 1..Len(s) : s[i] = s[j] => i = j}

NotCalled == [raised |-> FALSE, value |-> <<"not called">>]

ToolsInit ==
    /\ bt_names \in NameLists
    /\ bt_perm \in {p \in NameLists : IsPermutation(bt_names, p)}
    /\ bt_result = NotCalled
    /\ bt_result_perm = NotCalled
    /\ bt_called = FALSE

ToolsFixed ==
    /\ bt_names = <<>>
    /\ bt_perm = <<>>
    /\ bt_result = NotCalled
    /\ bt_result_perm = NotCalled
    /\ bt_called = FALSE

\* build_tools(llm, names) and build_tools(llm, perm), each on its own.
CallBuildTools ==
    /\ ~bt_called
    /\ bt_result' = build_tools(bt_names)
    /\ bt_result_perm' = build_tools(bt_perm)
    /\ bt_called' = TRUE
    /\ UNCHANGED <<bt_names, bt_perm>>
    /\ UNCHANGED <<session_vars, prompt_vars>>

\* ------------------------------------------------------------------ session
\* Sidebar values: model name (text input), temperature (slider, in tenths) and
\* the multiselect's list, which holds options of default_tools in the order the
\* user picked them.
ModelSettings ==
    {[model |-> "llama3.2", temperature |-> 7], [model |-> "mistral", temperature |-> 0]}
ToolSelections == {<<>>, default_tools, <<"Salary Estimator", "Resume Scorer">>}
Widgets ==
    {[model |-> m.model, temperature |-> m.temperature, tools |-> ts] :
        m \in ModelSettings, ts \in ToolSelections}

\* The sidebar's defaults: value="llama3.2", 0.7, default=default_tools.
DefaultWidgets == [model |-> "llama3.2", temperature |-> 7, tools |-> default_tools]

Utterances == {<<"u1">>, <<"u2">>}         \* what the user types
Replies == {<<"r1">>}                      \* what agent.run returns
Errors == {<<>>, <<"connection refused">>} \* str(e) of what agent.run raises

\* {"role": "user", "content": user_input} and {"role": "assistant", ...}.
UserTurn(text) == [role |-> "user", content |-> text]

\* The reply recorded under the role of the line above it.
AssistantTurn_AsUser(text) == [role |-> "user", content |-> text]

AssistantTurn(text) == [role |-> "assistant", content |-> text]

\* f"{e}": the message of the exception on its own.
Diag_Bare(err) == err

\* f"Oops, something went wrong: {e}"
Diag(err) == <<"Oops, something went wrong: ">> \o err

\* The new turn put in front of the log.
save_context_front(mem, input, output) ==
    <<[type |-> "human", content |-> input], [type |-> "ai", content |-> output]>> \o mem

\* ConversationBufferMemory.save_context, which the agent chain calls with the
\* input and the output after a run that returned: a HumanMessage, an AIMessage.
save_context(mem, input, output) ==
    mem \o <<[type |-> "human", content |-> input], [type |-> "ai", content |-> output]>>

\* ChatOllama(model=model_name, temperature=temperature)
ChatOllama(w) == [model |-> w.model, temperature |-> w.temperature]

\* initialize_agent(tools=tools, ..., agent=ZERO_SHOT_REACT_DESCRIPTION): the
\* zero-shot agent validates its tools and raises ValueError ("Got no tools for
\* ZeroShotAgent. At least one tool must be provided.") on an empty list.
initialize_agent(ts) ==
    IF Len(ts) = 0 THEN [raised |-> TRUE, tools |-> <<>>]
    ELSE [raised |-> FALSE, tools |-> ts]

\* Lines 246-264 of a run with the widget values w: llm, tools and agent are
\* built, outside any try, before st.chat_input is reached.
ReachesChatInput(w) ==
    /\ ~build_tools(w.tools).raised
    /\ ~initialize_agent(build_tools(w.tools).value).raised

NoLLM == [model |-> "", temperature |-> 0]

ClearEvent(w) == [kind |-> "clear", text |-> <<>>, widgets |-> w]
InputEvent(u, w) == [kind |-> "input", text |-> u, widgets |-> w]
ConfigEvent(w) == [kind |-> "config", text |-> <<>>, widgets |-> w]

\* Turns the utterances under way will still add to the transcript.
PendingTurns ==
    2 * Cardinality({i \in 1..Len(events) : events[i].kind = "input"})
      + (IF pc = "idle" THEN 0 ELSE 1)

SessionInit ==
    /\ messages = <<>>
    /\ memory = <<>>
    /\ ui = DefaultWidgets
    /\ events = <<>>
    /\ chat_shown = TRUE
    /\ pc = "idle"
    /\ llm = NoLLM
    /\ enabled_tools = <<>>
    /\ tools = <<>>
    /\ user_input = <<>>
    /\ context = <<>>
    /\ invoked = {}
    /\ e = <<>>
    /\ response = <<>>
    /\ cleared = FALSE

locals == <<llm, enabled_tools, tools, user_input, context, invoked, e, response>>

\* ---- the browser: the user may act at any time; an event waits for its run
UserSubmit(u) ==
    /\ chat_shown
    /\ Len(events) < MaxPending
    /\ Len(messages) + PendingTurns + 2 <= MaxTurns
    /\ events' = Append(events, InputEvent(u, ui))
    /\ UNCHANGED <<messages, memory, ui, chat_shown, pc, locals, cleared>>
    /\ UNCHANGED <<tools_vars, prompt_vars>>

UserClear ==
    /\ Len(events) < MaxPending
    /\ events' = Append(events, ClearEvent(ui))
    /\ UNCHANGED <<messages, memory, ui, chat_shown, pc, locals, cleared>>
    /\ UNCHANGED <<tools_vars, prompt_vars>>

UserConfig(w) ==
    /\ Len(events) < MaxPending
    /\ w # ui
    /\ ui' = w
    /\ events' = Append(events, ConfigEvent(w))
    /\ UNCHANGED <<messages, memory, chat_shown, pc, locals, cleared>>
    /\ UNCHANGED <<tools_vars, prompt_vars>>

\* A run that starts whether or not the last one has ended.
CanStartRun_Reentrant == events # <<>>

\* ---- the script: one run per event, top to bottom, one run at a time
CanStartRun == pc = "idle" /\ events # <<>>

\* The clear without line 238: the memory is left as it is.
RunClear_KeepsMemory ==
    /\ CanStartRun
    /\ Head(events).kind = "clear"
    /\ messages' = <<>>
    /\ chat_shown' = ReachesChatInput(Head(events).widgets)
    /\ events' = Tail(events)
    /\ cleared' = (cleared \/ messages # <<>> \/ memory # <<>>)
    /\ UNCHANGED <<memory, ui, pc, locals>>
    /\ UNCHANGED <<tools_vars, prompt_vars>>

\* clear_chat is set: lines 236-239, then the rerun st.experimental_rerun asks
\* for, which has no clear and no input and ends at (or before) st.chat_input.
RunClear ==
    /\ CanStartRun
    /\ Head(events).kind = "clear"
    /\ messages' = <<>>
    /\ memory' = <<>>
    /\ chat_shown' = ReachesChatInput(Head(events).widgets)
    /\ events' = Tail(events)
    /\ cleared' = (cleared \/ messages # <<>> \/ memory # <<>>)
    /\ UNCHANGED <<ui, pc, locals>>
    /\ UNCHANGED <<tools_vars, prompt_vars>>

\* A sidebar widget changed: the run rebuilds llm, tools and agent and ends at
\* st.chat_input with no user_input.
RunConfig ==
    /\ CanStartRun
    /\ Head(events).kind = "config"
    /\ chat_shown' = ReachesChatInput(Head(events).widgets)
    /\ events' = Tail(events)
    /\ UNCHANGED <<messages, memory, ui, pc, locals, cleared>>
    /\ UNCHANGED <<tools_vars, prompt_vars>>

\* An utterance was submitted, but build_tools or initialize_agent raises: the
\* run ends at line 252/254 with an unhandled exception, before line 264.
RunInputAborted ==
    /\ CanStartRun
    /\ Head(events).kind = "input"
    /\ ~ReachesChatInput(Head(events).widgets)
    /\ chat_shown' = FALSE
    /\ events' = Tail(events)
    /\ UNCHANGED <<messages, memory, ui, pc, locals, cleared>>
    /\ UNCHANGED <<tools_vars, prompt_vars>>

\* An utterance was submitted: lines 205-276 up to the call of agent.run, which
\* loads chat_history from the memory.
RunInput ==
    /\ CanStartRun
    /\ Head(events).kind = "input"
    /\ ReachesChatInput(Head(events).widgets)
    /\ llm' = ChatOllama(Head(events).widgets)
    /\ enabled_tools' = Head(events).widgets.tools
    /\ tools' = initialize_agent(build_tools(Head(events).widgets.tools).value).tools
    /\ user_input' = Head(events).text
    /\ messages' = Append(messages, UserTurn(Head(events).text))
    /\ context' = memory
    /\ invoked' = {}
    /\ chat_shown' = TRUE
    /\ pc' = "agent_run"
    /\ events' = Tail(events)
    /\ UNCHANGED <<memory, ui, e, response, cleared>>
    /\ UNCHANGED <<tools_vars, prompt_vars>>

\* The agent's loop picks one of its tools and invokes it.
AgentInvokeTool(t) ==
    /\ pc = "agent_run"
    /\ t \in Range(tools)
    /\ t \notin invoked
    /\ Cardinality(invoked) < MaxToolCalls
    /\ invoked' = invoked \cup {t}
    /\ UNCHANGED <<messages, memory, ui, events, chat_shown, pc, llm, enabled_tools,
                   tools, user_input, context, e, response, cleared>>
    /\ UNCHANGED <<tools_vars, prompt_vars>>

\* response = agent.run(user_input) returns; the chain has saved the turn.
AgentReturn(r) ==
    /\ pc = "agent_run"
    /\ response' = r
    /\ memory' = save_context(memory, user_input, r)
    /\ pc' = "reply"
    /\ UNCHANGED <<messages, ui, events, chat_shown, llm, enabled_tools, tools,
                   user_input, context, invoked, e, cleared>>
    /\ UNCHANGED <<tools_vars, prompt_vars>>

\* agent.run(user_input) raises an Exception; nothing was saved.
AgentRaise(x) ==
    /\ pc = "agent_run"
    /\ e' = x
    /\ pc' = "except"
    /\ UNCHANGED <<messages, memory, ui, events, chat_shown, llm, enabled_tools, tools,
                   user_input, context, invoked, response, cleared>>
    /\ UNCHANGED <<tools_vars, prompt_vars>>

\* except Exception as e: response = f"Oops, something went wrong: {e}"
HandleException ==
    /\ pc = "except"
    /\ response' = Diag(e)
    /\ pc' = "reply"
    /\ UNCHANGED <<messages, memory, ui, events, chat_shown, llm, enabled_tools, tools,
                   user_input, context, invoked, e, cleared>>
    /\ UNCHANGED <<tools_vars, prompt_vars>>

\* st.markdown(response); messages.append({"role": "assistant", ...}); the run
\* ends and its locals are gone.
AppendReply ==
    /\ pc = "reply"
    /\ messages' = Append(messages, AssistantTurn(response))
    /\ pc' = "idle"
    /\ llm' = NoLLM
    /\ enabled_tools' = <<>>
    /\ tools' = <<>>
    /\ user_input' = <<>>
    /\ context' = <<>>
    /\ invoked' = {}
    /\ e' = <<>>
    /\ response' = <<>>
    /\ UNCHANGED <<memory, ui, events, chat_shown, cleared>>
    /\ UNCHANGED <<tools_vars, prompt_vars>>

Init == SessionInit /\ ToolsFixed /\ llm_calls = <<>>

Next ==
    \/ \E u \in Utterances : UserSubmit(u)
    \/ UserClear
    \/ \E w \in Widgets : UserConfig(w)
    \/ RunClear
    \/ RunConfig
    \/ RunInputAborted
    \/ RunInput
    \/ \E t \in {all_tools[l] : l \in DOMAIN all_tools} : AgentInvokeTool(t)
    \/ \E r \in Replies : AgentReturn(r)
    \/ \E x \in Errors : AgentRaise(x)
    \/ HandleException
    \/ AppendReply

Spec == Init /\ [][Next]_vars

InitTools == ToolsInit /\ SessionInit /\ llm_calls = <<>>

NextTools == CallBuildTools

SpecTools == InitTools /\ [][NextTools]_vars

\* ------------------------------------------------------------------ tool functions
\* A prompt is a sequence of tokens: a line of a template without its line
\* end, the line end LF, or a token of the input text.
LF == "\n"
Line(text) == <<text, LF>>
Blank == <<LF>>

RECURSIVE Concat(_)
Concat(ss) == IF ss = <<>> THEN <<>> ELSE Head(ss) \o Concat(Tail(ss))

ToolNames == {all_tools[l] : l \in DOMAIN all_tools}

\* First line of each template: the persona.
Persona(t) ==
    CASE t = "skills_gap_analyzer" -> "You are a senior career coach and technical mentor."
      [] t = "resume_scorer" -> "You are an expert resume reviewer for top tech companies."
      [] t = "salary_estimator" -> "You are a career and compensation advisor."
      [] t = "interview_question_generator" -> "You are an expert interviewer."

\* The line that opens the task.
TaskLine(t) ==
    IF t = "skills_gap_analyzer"
    THEN "Task: Compare the user's current skills against the target job and identify:"
    ELSE "Task:"

\* The numbered instructions of each template, each with its sub-bullet lines.
Instructions(t) ==
    CASE t = "skills_gap_analyzer" ->
           << [number |-> 1, lines |-> <<"1. Strong matches">>],
              [number |-> 2, lines |-> <<"2. Partial matches">>],
              [number |-> 3, lines |-> <<"3. Clear gaps">>],
              [number |-> 4, lines |->
                 <<"4. A step-by-step learning path (ordered roadmap) to close the gaps.">>],
              [number |-> 5, lines |->
                 <<"5. Recommended resources or practice project ideas.">>] >>
      [] t = "resume_scorer" ->
           << [number |-> 1, lines |->
                 <<"1. Score the resume out of 10 for the specified target role.">>],
              [number |-> 2, lines |-> <<"2. Briefly explain the score.">>],
              [number |-> 3, lines |->
                 <<"3. List concrete, actionable improvements:",
                   "   - content (projects, impact, metrics)",
                   "   - structure & clarity",
                   "   - keywords & ATS-friendliness">>],
              [number |-> 4, lines |->
                 <<"4. Provide a revised sample bullet or small section as an example.">>] >>
      [] t = "salary_estimator" ->
           << [number |-> 1, lines |->
                 <<"1. Estimate a realistic **base salary range** for this profile (low, median, high).">>],
              [number |-> 2, lines |-> <<"2. Specify the assumed currency clearly.">>],
              [number |-> 3, lines |->
                 <<"3. Mention factors that affect the range:",
                   "   - company size (startup vs big tech),",
                   "   - cost of living at the location,",
                   "   - skills & specialization,",
                   "   - remote vs on-site.">>],
              [number |-> 4, lines |->
                 <<"4. Add a short note on how the user can validate/adjust this range using public sources.">>] >>
      [] t = "interview_question_generator" ->
           << [number |-> 1, lines |->
                 <<"1. Generate interview questions for the given role and level.">>],
              [number |-> 2, lines |->
                 <<"2. Include the requested mix of technical and/or behavioral questions.">>],
              [number |-> 3, lines |->
                 <<"3. Group questions by category (e.g., Technical - Python, Technical - SQL, Behavioral).">>],
              [number |-> 4, lines |->
                 <<"4. For each question, optionally add:",
                   "   - a short hint or what the interviewer is looking for,",
                   "   - difficulty tag (easy/medium/hard).">>] >>

\* The sentence after the instructions (the interview template has none).
Closing(t) ==
    CASE t = "skills_gap_analyzer" ->
           <<"Be concrete and structured. Use short sections and bullet points.">>
      [] t = "resume_scorer" -> <<"Be concise but specific.">>
      [] t = "salary_estimator" ->
           <<"Be explicit that this is an approximate estimate, not official or guaranteed.">>
      [] t = "interview_question_generator" -> <<>>

\* The label line right before the interpolation point.
InputLabel(t) ==
    CASE t = "skills_gap_analyzer" -> "User & Job Info:"
      [] t = "resume_scorer" -> "Input:"
      [] t = "salary_estimator" -> "Profile:"
      [] t = "interview_question_generator" -> "Input:"

InstructionLines(t) ==
    Concat([i \in 1..Len(Instructions(t)) |->
              Concat([k \in 1..Len(Instructions(t)[i].lines) |->
                        Line(Instructions(t)[i].lines[k])])])

\* The f-string up to {input_text}: it opens with a line end.
Template(t) ==
    Blank \o Line(Persona(t)) \o Blank \o Line(TaskLine(t)) \o InstructionLines(t)
      \o Blank
      \o (IF Closing(t) = <<>> THEN <<>> ELSE Line(Closing(t)[1]) \o Blank)
      \o Line(InputLabel(t))

\* str.strip: leading and trailing line ends removed.
RECURSIVE Strip(_)
Strip(s) ==
    IF s = <<>> THEN s
    ELSE IF Head(s) = LF THEN Strip(Tail(s))
    ELSE IF s[Len(s)] = LF THEN Strip(SubSeq(s, 1, Len(s) - 1))
    ELSE s

\* {input_text.strip()} at the interpolation point.
render_stripped(t, input_text) == Template(t) \o Strip(input_text) \o <<LF>>

\* prompt = f"""...{input_text}\n""": the template, the input text, a line end.
render(t, input_text) == Template(t) \o input_text \o <<LF>>

InputTokens == {"Target Role: Backend Engineer", LF}
InputTexts == SeqsUpTo(InputTokens, MaxInputLen)

PromptInit == llm_calls = <<>>

\* _skills_gap_analyzer(input_text) and its three siblings: the prompt is
\* rendered and sent with llm.invoke(prompt); resp.content is returned as is.
InvokeTool(t, input_text) ==
    /\ Len(llm_calls) < MaxCalls
    /\ llm_calls' = Append(llm_calls,
                           [tool |-> t, input |-> input_text, prompt |-> render(t, input_text)])
    /\ UNCHANGED <<session_vars, tools_vars>>

InitPrompt == PromptInit /\ SessionInit /\ ToolsFixed

NextPrompt == \E t \in ToolNames, input_text \in InputTexts : InvokeTool(t, input_text)

SpecPrompt == InitPrompt /\ [][NextPrompt]_vars

\* ------------------------------------------------------------------ properties
\* A memory message as a transcript turn: human -> user, ai -> assistant.
TurnsOf(mem) ==
    [i \in 1..Len(mem) |->
        [role |-> IF mem[i].type = "human" THEN "user" ELSE "assistant",
         content |-> mem[i].content]]

\* The script takes the clear event at the head of the queue.
ClearStep ==
    pc = "idle" /\ events # <<>> /\ Head(events).kind = "clear" /\ events' = Tail(events)

\* The tools of the labels of default_tools that occur in names, in declaration order.
InDeclarationOrder(names) ==
    LET picked == SelectSeq(default_tools, LAMBDA l : l \in Range(names))
    IN  [i \in 1..Len(picked) |-> all_tools[picked[i]]]

\* The tools of the known names of the list, in the order of the list.
KnownOf(names) ==
    LET known == SelectSeq(names, LAMBDA n : n \in DOMAIN all_tools)
    IN  [i \in 1..Len(known) |-> all_tools[known[i]]]

\* C1: for name lists of known names, build_tools returns the selected tools in
\* declaration order, so a list and a permutation of it give the same sequence.
C1_DeclarationOrder ==
    (bt_called /\ ~bt_result.raised /\ ~bt_result_perm.raised) =>
        /\ bt_result.value = InDeclarationOrder(bt_names)
        /\ bt_result.value = bt_result_perm.value

\* C2: a name list with an unknown name raises no error and gives exactly the
\* tools of its known names.
C2_UnknownIgnored ==
    bt_called => (~bt_result.raised /\ bt_result.value = KnownOf(bt_names))

\* C3: the clear empties the transcript and the memory together, whatever came
\* before, and the agent run of a later utterance loads a context made only of
\* turns of the transcript as it stands since that clear.
C3_ClearEmptiesBoth ==
    /\ [][ClearStep => (messages' = <<>> /\ memory' = <<>>)]_vars
    /\ [](pc = "agent_run" =>
            /\ context = memory
            /\ IsSubseq(TurnsOf(context), SubSeq(messages, 1, Len(messages) - 1)))

\* C3 witness: a clear has removed turns and the next utterance's agent run
\* has loaded an empty context.
C3_Witness ==
    cleared /\ pc = "agent_run" /\ Len(messages) = 1 /\ context = <<>> /\ memory = <<>>

\* C4: an agent run that raised is caught: the cycle goes on to record a
\* non-empty diagnostic as the assistant turn, ends idle with the chat input
\* rendered, and nothing else can follow a failure.
C4_FailureContained ==
    [][ /\ (pc = "except" /\ pc' # pc) => (pc' = "reply" /\ response' # <<>>)
        /\ (pc = "except" /\ pc' = pc) => (response' = response /\ e' = e)
        /\ (pc = "reply" /\ pc' # pc) =>
              /\ pc' = "idle"
              /\ response # <<>>
              /\ messages' = Append(messages, [role |-> "assistant", content |-> response])
              /\ chat_shown'
      ]_vars

\* C4 witness: a failed cycle left its diagnostic in the transcript and a later
\* utterance was processed to its end.
C4_Witness ==
    /\ pc = "idle"
    /\ Len(messages) = 4
    /\ messages[2] = [role |-> "assistant", content |-> <<"Oops, something went wrong: ">>]
    /\ messages[4] = [role |-> "assistant", content |-> <<"r1">>]

\* C5: between cycles the memory holds the same ordered user/assistant turns as
\* the transcript, after successful and failed utterances alike.
C5_MemoryMirrorsTranscript ==
    pc = "idle" => TurnsOf(memory) = messages

\* C6: the agent of a cycle is built from the configuration read at the start
\* of the cycle and invokes only tools of that enabled set, and whatever the
\* enabled set, the empty one included, the session still takes an utterance.
C6_EnabledSetGovernsCycle ==
    /\ pc # "idle" => invoked \subseteq {all_tools[l] : l \in Range(enabled_tools)}
    /\ pc # "idle" => tools = build_tools(enabled_tools).value
    /\ (pc = "idle" /\ events = <<>>) => chat_shown

\* C7: every step other than the clear keeps the turns of the transcript and of
\* the memory as a prefix and adds only at the tail, in call order; the clear
\* leaves no turn.
C7_AppendOnly ==
    [][ IF ClearStep
        THEN messages' = <<>> /\ memory' = <<>>
        ELSE /\ IsPrefix(messages, messages')
             /\ IsPrefix(memory, memory')
             /\ Len(messages') <= Len(messages) + 1
             /\ memory' # memory =>
                   /\ Len(memory') = Len(memory) + 2
                   /\ memory'[Len(memory) + 1] = [type |-> "human", content |-> user_input]
                   /\ memory'[Len(memory) + 2] = [type |-> "ai", content |-> response']
      ]_vars

\* C7 witness: the same utterance and reply were saved twice, both kept, in order.
C7_Witness ==
    /\ Len(memory) = 4
    /\ memory[1] = memory[3]
    /\ memory[2] = memory[4]
    /\ Len(messages) = 4

C9_InputAtEnd ==
    \A i \in 1..Len(llm_calls) :
        llm_calls[i].prompt = Template(llm_calls[i].tool) \o llm_calls[i].input

\* C9 (amended): the prompt depends on the tool and the input alone; it is the
\* template with its numbered instructions (1..5 for the skills-gap tool), the
\* input text unmodified, and then the one line end that closes the template.
C9_PromptOfInput ==
    /\ \A i, j \in 1..Len(llm_calls) :
          (llm_calls[i].tool = llm_calls[j].tool /\ llm_calls[i].input = llm_calls[j].input)
              => llm_calls[i].prompt = llm_calls[j].prompt
    /\ \A i \in 1..Len(llm_calls) :
          LET c == llm_calls[i]
              body == Len(Template(c.tool))
          IN  /\ Len(c.prompt) = body + Len(c.input) + 1
              /\ SubSeq(c.prompt, 1, body) = Template(c.tool)
              /\ SubSeq(c.prompt, body + 1, body + Len(c.input)) = c.input
              /\ c.prompt[Len(c.prompt)] = LF
              /\ IsSubseq(InstructionLines(c.tool), SubSeq(c.prompt, 1, body))
              /\ \A k \in 1..Len(Instructions(c.tool)) : Instructions(c.tool)[k].number = k
              /\ c.tool = "skills_gap_analyzer" => Len(Instructions(c.tool)) = 5

\* C9 witness: the skills-gap tool was invoked twice with the same input text,
\* which ends in a line end, after another call or not.
C9_Witness ==
    /\ Len(llm_calls) = 2
    /\ llm_calls[1].tool = "skills_gap_analyzer"
    /\ llm_calls[2].tool = "skills_gap_analyzer"
    /\ llm_calls[1].input = <<"Target Role: Backend Engineer", LF>>
    /\ llm_calls[2].input = llm_calls[1].input

\* C10: the transcript alternates user, assistant from a user turn on; it has
\* even length between cycles and, during a cycle, ends in the user turn of
\* the utterance being processed.
C10_Alternates ==
    /\ \A i \in 1..Len(messages) :
          messages[i].role = (IF i % 2 = 1 THEN "user" ELSE "assistant")
    /\ pc = "idle" => Len(messages) % 2 = 0
    /\ pc # "idle" =>
          /\ Len(messages) % 2 = 1
          /\ messages[Len(messages)].content = user_input

\* C10 witness: a cycle whose run returned and one whose run raised, each a
\* user turn and an assistant turn.
C10_Witness ==
    /\ pc = "idle"
    /\ Len(messages) = 4
    /\ messages[2].content = <<"r1">>
    /\ messages[4].content = <<"Oops, something went wrong: ", "connection refused">>

====
